---------------------------- MODULE Spec2Model ----------------------------
(***************************************************************************)
(* A model of the two maintenance scripts of the chess-variants site:      *)
(*   _scripts/verify_links.py       the link verifier                      *)
(*   _scripts/update_tournaments.py the tournament calendar aggregator     *)
(* Text is modelled as a sequence of one-character strings wherever the    *)
(* scripts look inside it (lower-casing, substring tests, splitting,       *)
(* regular expressions, lexicographic comparison).                         *)
(***************************************************************************)
EXTENDS Integers, Sequences, FiniteSets, TLC

VARIABLES
    \* ---- verify_links.py ----
    pc,               \* where main is: "main", "check", "exited", "crashed"
    fileIdx,          \* index into FILES_TO_CHECK of the file main handles next
    links,            \* verify_file_links: the links extracted from the current file
    linkIdx,          \* verify_file_links: index of the link being checked
    current_attempt,  \* check_url: the loop variable
    last_error,       \* check_url: last_error
    hist,             \* the classified outcome of each attempt of the latest check_url call
    ret,              \* the value the latest check_url call returned (NoRet while it runs)
    sleeps,           \* number of time.sleep(RETRY_DELAY) calls in the latest check_url call
    failed_links,     \* verify_file_links: failed_links
    all_failed_links, \* main: all_failed_links
    checked,          \* every (file, title, field, url) check_url was called with, in order
    returns,          \* the value each finished check_url call returned, in order
    visited,          \* the files of FILES_TO_CHECK whose loop iteration has run
    exitCode,         \* the process exit status (NoExit while running)
    \* ---- update_tournaments.py, __main__ ----
    apc,              \* "fetch", "merge", "done", "aborted"
    args,             \* the parsed command line flags
    today,            \* datetime.datetime.today()
    calendars,        \* the list of tables gathered so far
    feedIdx,          \* index of the next source to fetch
    lastFetch,        \* what the latest fetch got from its source
    filtered,         \* the table after the date filter
    merged,           \* the table that is written out
    \* ---- get_variant ----
    gvWords,          \* the words the title is made of
    gvTitle,          \* get_variant's title
    gvVariants,       \* get_variant's variants
    gvResult,         \* what get_variant returned (NotYet before the call)
    \* ---- prettify_location ----
    locIn,            \* a cell of the location column
    locOnce,          \* the cell after prettify_location
    locTwice          \* the cell after prettify_location applied to its own output

linkVars == <<pc, fileIdx, links, linkIdx, current_attempt, last_error, hist, ret,
              sleeps, failed_links, all_failed_links, checked, returns, visited, exitCode>>
aggVars == <<apc, args, today, calendars, feedIdx, lastFetch, filtered, merged>>
gvVars == <<gvWords, gvTitle, gvVariants, gvResult>>
locVars == <<locIn, locOnce, locTwice>>
vars == <<linkVars, aggVars, gvVars, locVars>>

(***************************************************************************)
(* Text helpers: Python's str operations on sequences of characters.       *)
(***************************************************************************)
LowerCase == <<"a", "b", "c", "d", "e", "f", "g", "h", "i", "j", "k", "l", "m", "n", "o", "p", "q", "r", "s", "t", "u", "v", "w", "x", "y", "z">>
UpperCase == <<"A", "B", "C", "D", "E", "F", "G", "H", "I", "J", "K", "L", "M", "N", "O", "P", "Q", "R", "S", "T", "U", "V", "W", "X", "Y", "Z">>
Digits == {"0", "1", "2", "3", "4", "5", "6", "7", "8", "9"}
\* the characters of the model in code point order
Ascii == <<" ", ",", "-", "0", "1", "2", "3", "4", "5", "6", "7", "8", "9">> \o UpperCase \o <<"_">> \o LowerCase

IndexIn(c, seq) == IF \E i \in 1..Len(seq) : seq[i] = c
                   THEN CHOOSE i \in 1..Len(seq) : seq[i] = c
                   ELSE 0

Ord(c) == IndexIn(c, Ascii)

\* str.lower() and str.upper() of one character
LowerChar(c) == IF IndexIn(c, UpperCase) > 0 THEN LowerCase[IndexIn(c, UpperCase)] ELSE c
UpperChar(c) == IF IndexIn(c, LowerCase) > 0 THEN UpperCase[IndexIn(c, LowerCase)] ELSE c

\* str.lower()
Lower(s) == [i \in 1..Len(s) |-> LowerChar(s[i])]

\* str.capitalize(): first character upper-cased, the rest lower-cased
Capitalize(s) == [i \in 1..Len(s) |-> IF i = 1 THEN UpperChar(s[i]) ELSE LowerChar(s[i])]

\* the Python test `sub in s`
Contains(s, sub) ==
    \E i \in 0..(Len(s) - Len(sub)) : \A k \in 1..Len(sub) : s[i + k] = sub[k]

\* Python's s < t on strings: lexicographic by code point
RECURSIVE StrLess(_, _)
StrLess(s, t) ==
    IF t = <<>> THEN FALSE
    ELSE IF s = <<>> THEN TRUE
    ELSE IF s[1] # t[1] THEN Ord(s[1]) < Ord(t[1])
    ELSE StrLess(Tail(s), Tail(t))

StrGE(s, t) == ~StrLess(s, t)

\* c * n
RECURSIVE Repeat(_, _)
Repeat(c, n) == IF n = 0 THEN <<>> ELSE <<c>> \o Repeat(c, n - 1)

(***************************************************************************)
(* verify_links.py                                                         *)
(***************************************************************************)
TIMEOUT == 10
MAX_RETRIES == 3
RETRY_DELAY == 2
FILES_TO_CHECK == <<"guis.yml", "engines.yml", "resources.yml", "servers.yml">>
\* the length above which a permissions-policy header counts as restrictive
RestrictivePermsLen == 200

\* ---- bounds of the link verifier model ----
MaxLinks == 2      \* links checked in one run
MaxItems == 1      \* items of one data file

Absent == "<absent>"     \* a key the YAML item does not have
NoRet == [running |-> TRUE]
NoExit == -1

\* ---- HTTP responses and request exceptions, the outcomes of one request ----
Response(status, headers) == [kind |-> "response", status |-> status, headers |-> headers]
Raised(class, text) == [kind |-> "exception", class |-> class, text |-> text]

\* requests' headers are a case-insensitive mapping: `name in headers`
HasHeader(headers, name) == \E i \in 1..Len(headers) : Lower(headers[i][1]) = name

\* headers.get(name, '') and headers[name]
GetHeader(headers, name) ==
    IF HasHeader(headers, name)
    THEN headers[CHOOSE i \in 1..Len(headers) : Lower(headers[i][1]) = name][2]
    ELSE <<>>

antibot_indicators ==
    <<<<"c", "h", "a", "l", "l", "e", "n", "g", "e">>, <<"c", "a", "p", "t", "c", "h", "a">>, <<"b", "o", "t", "-", "p", "r", "o", "t", "e", "c", "t", "i", "o", "n">>, <<"h", "u", "m", "a", "n", "-", "v", "e", "r", "i", "f", "i", "c", "a", "t", "i", "o", "n">>, <<"s", "e", "c", "u", "r", "i", "t", "y", "-", "c", "h", "e", "c", "k">>>>

security_headers == <<<<"c", "r", "o", "s", "s", "-", "o", "r", "i", "g", "i", "n", "-", "e", "m", "b", "e", "d", "d", "e", "r", "-", "p", "o", "l", "i", "c", "y">>, <<"c", "r", "o", "s", "s", "-", "o", "r", "i", "g", "i", "n", "-", "o", "p", "e", "n", "e", "r", "-", "p", "o", "l", "i", "c", "y">>>>

\* lines 33-35: the Cloudflare challenge header, whatever the status
CfMitigatedChallenge(response) ==
    /\ HasHeader(response.headers, <<"c", "f", "-", "m", "i", "t", "i", "g", "a", "t", "e", "d">>)
    /\ Contains(Lower(GetHeader(response.headers, <<"c", "f", "-", "m", "i", "t", "i", "g", "a", "t", "e", "d">>)), <<"c", "h", "a", "l", "l", "e", "n", "g", "e">>)

\* lines 37-43: a 403 from a Cloudflare server with one of its request headers
Cloudflare403(response) ==
    /\ response.status = 403
    /\ HasHeader(response.headers, <<"s", "e", "r", "v", "e", "r">>)
    /\ Contains(Lower(GetHeader(response.headers, <<"s", "e", "r", "v", "e", "r">>)), <<"c", "l", "o", "u", "d", "f", "l", "a", "r", "e">>)
    /\ \E h \in {<<"c", "f", "-", "r", "a", "y">>, <<"c", "f", "-", "r", "e", "q", "u", "e", "s", "t", "-", "i", "d">>, <<"c", "f", "-", "m", "i", "t", "i", "g", "a", "t", "e", "d">>} : HasHeader(response.headers, h)

\* lines 56-63: a header whose name or value holds an indicator
IndicatorHeader(response) ==
    \E i \in 1..Len(response.headers) : \E k \in 1..Len(antibot_indicators) :
        \/ Contains(Lower(response.headers[i][1]), antibot_indicators[k])
        \/ Contains(Lower(response.headers[i][2]), antibot_indicators[k])

\* lines 65-71: both cross-origin policies with a long permissions-policy or a cf-ray
SecurityHeaders403(response) ==
    LET restrictive_perms ==
            /\ HasHeader(response.headers, <<"p", "e", "r", "m", "i", "s", "s", "i", "o", "n", "s", "-", "p", "o", "l", "i", "c", "y">>)
            /\ Len(GetHeader(response.headers, <<"p", "e", "r", "m", "i", "s", "s", "i", "o", "n", "s", "-", "p", "o", "l", "i", "c", "y">>)) > RestrictivePermsLen
    IN  /\ response.status = 403
        /\ Cardinality({k \in 1..Len(security_headers) :
                            HasHeader(response.headers, security_headers[k])}) >= 2
        /\ (restrictive_perms \/ HasHeader(response.headers, <<"c", "f", "-", "r", "a", "y">>))

\* a faulty variant of is_antibot_response that lacks the Cloudflare test of lines 37-43
is_antibot_response_no_cloudflare(response) ==
    \/ CfMitigatedChallenge(response)
    \/ (response.status \in {403, 429}
         /\ (IndicatorHeader(response) \/ SecurityHeaders403(response)))

\* is_antibot_response, lines 21-73
is_antibot_response(response) ==
    \/ CfMitigatedChallenge(response)
    \/ Cloudflare403(response)
    \/ (response.status \in {403, 429}
         /\ (IndicatorHeader(response) \/ SecurityHeaders403(response)))

\* ---- the responses and exceptions the model's servers give ----
R200 == Response(200, << <<<<"S", "e", "r", "v", "e", "r">>, <<"n", "g", "i", "n", "x">>>> >>)
R200Challenge == Response(200, << <<<<"C", "F", "-", "M", "i", "t", "i", "g", "a", "t", "e", "d">>, <<"c", "h", "a", "l", "l", "e", "n", "g", "e">>>> >>)
R301Captcha == Response(301, << <<<<"X", "-", "C", "a", "p", "t", "c", "h", "a">>, <<"r", "e", "q", "u", "i", "r", "e", "d">>>> >>)
R403Mitigated == Response(403, << <<<<"c", "f", "-", "m", "i", "t", "i", "g", "a", "t", "e", "d">>, <<"M", "a", "n", "a", "g", "e", "d", "-", "C", "h", "a", "l", "l", "e", "n", "g", "e">>>> >>)
R403Cloudflare == Response(403, << <<<<"S", "e", "r", "v", "e", "r">>, <<"c", "l", "o", "u", "d", "f", "l", "a", "r", "e">>>>, <<<<"C", "F", "-", "R", "A", "Y">>, <<"8", "a", "1">>>> >>)
R403Captcha == Response(403, << <<<<"S", "e", "r", "v", "e", "r">>, <<"n", "g", "i", "n", "x">>>>, <<<<"X", "-", "C", "a", "p", "t", "c", "h", "a", "-", "T", "o", "k", "e", "n">>, <<"a", "b", "c">>>> >>)
R403Policies ==
    Response(403, << <<<<"C", "r", "o", "s", "s", "-", "O", "r", "i", "g", "i", "n", "-", "E", "m", "b", "e", "d", "d", "e", "r", "-", "P", "o", "l", "i", "c", "y">>, <<"r", "e", "q", "u", "i", "r", "e", "-", "c", "o", "r", "p">>>>,
                     <<<<"C", "r", "o", "s", "s", "-", "O", "r", "i", "g", "i", "n", "-", "O", "p", "e", "n", "e", "r", "-", "P", "o", "l", "i", "c", "y">>, <<"s", "a", "m", "e", "-", "o", "r", "i", "g", "i", "n">>>>,
                     <<<<"P", "e", "r", "m", "i", "s", "s", "i", "o", "n", "s", "-", "P", "o", "l", "i", "c", "y">>, Repeat("a", RestrictivePermsLen + 1)>> >>)
R403Plain == Response(403, << <<<<"S", "e", "r", "v", "e", "r">>, <<"n", "g", "i", "n", "x">>>>, <<<<"c", "f", "-", "m", "i", "t", "i", "g", "a", "t", "e", "d">>, <<"b", "l", "o", "c", "k">>>> >>)
R404 == Response(404, <<>>)
R429Check == Response(429, << <<<<"R", "e", "t", "r", "y", "-", "A", "f", "t", "e", "r">>, <<"s", "e", "c", "u", "r", "i", "t", "y", "-", "c", "h", "e", "c", "k">>>> >>)
R500 == Response(500, << <<<<"S", "e", "r", "v", "e", "r">>, <<"c", "l", "o", "u", "d", "f", "l", "a", "r", "e">>>>, <<<<"C", "F", "-", "R", "A", "Y">>, <<"8", "a", "2">>>> >>)

Exceptions ==
    { Raised("Timeout", "read timed out"),
      Raised("ConnectionError", "name not resolved"),
      Raised("TooManyRedirects", "exceeded 30 redirects"),
      Raised("RequestException", "invalid URL"),
      Raised("Exception", "bad header") }

Responses == { R200, R200Challenge, R301Captcha, R403Mitigated, R403Cloudflare, R403Captcha,
               R403Policies, R403Plain, R404, R429Check, R500 }

AllOutcomes == Responses \cup Exceptions

\* the outcomes the whole-run model draws from: a plain success, an anti-bot answer,
\* an HTTP failure and a request exception
MainOutcomes == { R200, R403Mitigated, R500, Raised("Timeout", "read timed out") }

\* the anti-bot verdict of each response of the model (line 96)
AntiBot == [r \in Responses |-> is_antibot_response(r)]

\* lines 104-114: the text check_url records for a failed attempt
ErrorText(o) ==
    IF o.kind = "response" THEN "HTTP " \o ToString(o.status)
    ELSE CASE o.class = "Timeout" -> "Timeout"
           [] o.class = "ConnectionError" -> "Connection error"
           [] o.class = "TooManyRedirects" -> "Too many redirects"
           [] o.class = "RequestException" -> "Request error: " \o o.text
           [] OTHER -> "Unexpected error: " \o o.text

\* line 122
FailureMessage(err) == err \o " (failed after " \o ToString(MAX_RETRIES) \o " attempts)"

AntiBotMessage == "Anti-bot protection detected (human-accessible)"

\* lines 90-93: HEAD, then GET when HEAD answered with an error status; the response
\* (or exception) the rest of the attempt works with
Probe(head, get) ==
    IF head.kind = "response" /\ head.status >= 400 THEN get ELSE head

\* a faulty variant of AttemptVerdict that tests the status before the anti-bot headers
AttemptVerdictStatusFirst(o) ==
    IF o.kind = "exception" THEN "error"
    ELSE IF o.status < 400 THEN "ok"
    ELSE IF AntiBot[o] THEN "antibot"
    ELSE "error"

\* lines 95-114: what one attempt makes of its outcome:
\* "antibot" and "ok" return at once, "error" goes on to the retry test
AttemptVerdict(o) ==
    IF o.kind = "exception" THEN "error"
    ELSE IF AntiBot[o] THEN "antibot"
    ELSE IF o.status < 400 THEN "ok"
    ELSE "error"

\* ---- YAML data files ----
Items ==
    [ title : {Absent, "Fairy-Stockfish"},
      link : {Absent, "", "https://fairy-stockfish.github.io/"},
      github : {Absent, "", "fairy-stockfish/Fairy-Stockfish"} ]

RECURSIVE SeqsUpTo(_, _)
SeqsUpTo(S, n) ==
    IF n = 0 THEN {<<>>}
    ELSE LET shorter == SeqsUpTo(S, n - 1)
         IN  shorter \cup {Append(s, x) : s \in {t \in shorter : Len(t) = n - 1}, x \in S}

\* what yaml.safe_load gives: None (an empty document) or a mapping, with or
\* without the key 'items'
YamlNone == [type |-> "none"]
YamlData ==
    {YamlNone} \cup {[type |-> "dict", hasItems |-> FALSE, items |-> <<>>]}
               \cup {[type |-> "dict", hasItems |-> TRUE, items |-> s] : s \in SeqsUpTo(Items, MaxItems)}

\* what main finds at a path of FILES_TO_CHECK
FileStates ==
    {[state |-> "missing"], [state |-> "unreadable"]}
        \cup {[state |-> "loaded", data |-> d] : d \in YamlData}

\* the file states of the model with a single kind of link
UrlFileStates ==
    { [state |-> "missing"], [state |-> "unreadable"], [state |-> "loaded", data |-> YamlNone],
      [state |-> "loaded",
       data |-> [type |-> "dict", hasItems |-> TRUE,
                 items |-> << [title |-> "Fairy-Stockfish",
                               link |-> "https://fairy-stockfish.github.io/",
                               github |-> Absent] >>]] }

\* line 136: `'items' in data` raises TypeError on None
ExtractRaises(data) == data.type = "none"

\* lines 138-147: the links of one item
ItemLinks(item) ==
    LET title == IF item.title = Absent THEN "Unknown" ELSE item.title
    IN  (IF item.link # Absent /\ item.link # ""
         THEN << <<title, "link", item.link>> >> ELSE <<>>)
        \o
        (IF item.github # Absent /\ item.github # ""
         THEN << <<title, "github", "https://github.com/" \o item.github>> >> ELSE <<>>)

RECURSIVE ItemsLinks(_)
ItemsLinks(items) ==
    IF items = <<>> THEN <<>> ELSE ItemLinks(Head(items)) \o ItemsLinks(Tail(items))

extract_links(data) == IF data.hasItems THEN ItemsLinks(data.items) ELSE <<>>

\* the links verify_file_links would check for a file state (none when it returns early)
LinksOf(f) ==
    IF f.state = "loaded" /\ ~ExtractRaises(f.data) THEN extract_links(f.data) ELSE <<>>

FailedEntry(file, link, message) ==
    [file |-> file, title |-> link[1], field |-> link[2], url |-> link[3], error |-> message]

InitLinks ==
    /\ pc = "main"
    /\ fileIdx = 1
    /\ links = <<>>
    /\ linkIdx = 0
    /\ current_attempt = 1
    /\ last_error = ""
    /\ hist = <<>>
    /\ ret = NoRet
    /\ sleeps = 0
    /\ failed_links = <<>>
    /\ all_failed_links = <<>>
    /\ checked = <<>>
    /\ returns = <<>>
    /\ visited = {}
    /\ exitCode = NoExit

\* main, lines 204-213, one iteration of the loop over FILES_TO_CHECK up to the first
\* check_url call: the file is missing, or verify_file_links fails to read it, or
\* extract_links raises, or it has no links, or its links are about to be checked.
\* F is the set of file states the model draws from, budget the number of links of a run.
MainLoop(F, budget) ==
    /\ pc = "main"
    /\ fileIdx <= Len(FILES_TO_CHECK)
    /\ \E f \in F :
        /\ Len(checked) + Len(LinksOf(f)) <= budget
        /\ visited' = visited \cup {fileIdx}
        /\ IF f.state = "loaded" /\ ExtractRaises(f.data)
           THEN \* the TypeError leaves main: a traceback and exit status 1
                /\ pc' = "crashed"
                /\ exitCode' = 1
                /\ UNCHANGED <<fileIdx, links, linkIdx, failed_links>>
           ELSE IF LinksOf(f) = <<>>
           THEN \* `continue`, or verify_file_links returns an empty list
                /\ fileIdx' = fileIdx + 1
                /\ UNCHANGED <<pc, exitCode, links, linkIdx, failed_links>>
           ELSE /\ pc' = "check"
                /\ links' = LinksOf(f)
                /\ linkIdx' = 1
                /\ failed_links' = <<>>
                /\ UNCHANGED <<fileIdx, exitCode>>
    /\ UNCHANGED <<current_attempt, last_error, hist, ret, sleeps, all_failed_links, checked,
                   returns>>
    /\ UNCHANGED <<aggVars, gvVars, locVars>>

\* verify_file_links, lines 176-193, once check_url has returned (success, message):
\* record a failure, then go to the next link or hand the file's failures to main
Returned(success, message) ==
    LET failed == IF success THEN failed_links
                  ELSE Append(failed_links,
                              FailedEntry(FILES_TO_CHECK[fileIdx], links[linkIdx], message))
    IN  /\ ret' = [success |-> success, message |-> message]
        /\ returns' = Append(returns, [success |-> success, message |-> message])
        /\ current_attempt' = 1
        /\ IF linkIdx < Len(links)
           THEN /\ linkIdx' = linkIdx + 1
                /\ failed_links' = failed
                /\ UNCHANGED <<pc, fileIdx, links, all_failed_links>>
           ELSE /\ pc' = "main"
                /\ fileIdx' = fileIdx + 1
                /\ all_failed_links' = all_failed_links \o failed
                /\ failed_links' = <<>>
                /\ links' = <<>>
                /\ linkIdx' = 0

\* a faulty variant of LastAttempt that stops one attempt early
LastAttemptShort(n) == n >= MAX_RETRIES - 1

\* lines 88 and 117: range(attempt, MAX_RETRIES + 1) ends with attempt MAX_RETRIES
LastAttempt(n) == n >= MAX_RETRIES

\* the request of one attempt: HEAD's outcome, and GET's when HEAD answered >= 400
AttemptStep(head, get) ==
    LET first == current_attempt = 1
        o == Probe(head, get)
        verdict == AttemptVerdict(o)
        err == IF verdict = "error" THEN ErrorText(o) ELSE IF first THEN "" ELSE last_error
    IN  /\ hist' = IF first THEN <<o>> ELSE Append(hist, o)
        /\ checked' = IF first
                      THEN Append(checked, <<FILES_TO_CHECK[fileIdx]>> \o links[linkIdx])
                      ELSE checked
        /\ last_error' = err
        /\ IF verdict = "antibot"
           THEN /\ Returned(TRUE, AntiBotMessage)
                /\ sleeps' = IF first THEN 0 ELSE sleeps
           ELSE IF verdict = "ok"
           THEN /\ Returned(TRUE, "")
                /\ sleeps' = IF first THEN 0 ELSE sleeps
           ELSE IF ~LastAttempt(current_attempt)
           THEN \* lines 117-119: sleep, then the next attempt
                /\ sleeps' = (IF first THEN 0 ELSE sleeps) + 1
                /\ current_attempt' = current_attempt + 1
                /\ ret' = NoRet
                /\ UNCHANGED <<pc, fileIdx, links, linkIdx, failed_links, all_failed_links,
                               returns>>
           ELSE \* line 122: all retries exhausted
                /\ Returned(FALSE, FailureMessage(err))
                /\ sleeps' = IF first THEN 0 ELSE sleeps

\* check_url, lines 88-122: one iteration of the loop over attempts, for the link
\* verify_file_links is at
Attempt(O) ==
    /\ pc = "check"
    /\ \E head \in O :
        IF head.kind = "response" /\ head.status >= 400
        THEN \E get \in O : AttemptStep(head, get)
        ELSE AttemptStep(head, head)
    /\ UNCHANGED <<visited, exitCode>>
    /\ UNCHANGED <<aggVars, gvVars, locVars>>

\* main, lines 215-240: the summary and the exit status
MainExit ==
    /\ pc = "main"
    /\ fileIdx > Len(FILES_TO_CHECK)
    /\ pc' = "exited"
    /\ exitCode' = IF all_failed_links # <<>> THEN 1 ELSE 0
    /\ UNCHANGED <<fileIdx, links, linkIdx, current_attempt, last_error, hist, ret, sleeps,
                   failed_links, all_failed_links, checked, returns, visited>>
    /\ UNCHANGED <<aggVars, gvVars, locVars>>

(***************************************************************************)
(* update_tournaments.py: text and dates                                   *)
(***************************************************************************)
\* Python values of a table cell: a str, None, or the float NaN of a missing cell
PyStr(s) == [type |-> "str", s |-> s]
PyNone == [type |-> "NoneType", s |-> <<>>]
PyNaN == [type |-> "float", s |-> <<>>]

Whitespace == {" "}

\* str.split(sep) for a one-character separator: the pieces between separators
RECURSIVE SplitOn(_, _, _)
SplitOn(s, sep, piece) ==
    IF s = <<>> THEN <<piece>>
    ELSE IF Head(s) = sep THEN <<piece>> \o SplitOn(Tail(s), sep, <<>>)
    ELSE SplitOn(Tail(s), sep, Append(piece, Head(s)))

Split(s, sep) == SplitOn(s, sep, <<>>)

\* str.split(): the maximal runs of non-whitespace characters
RECURSIVE SplitWords(_, _)
SplitWords(s, word) ==
    IF s = <<>> THEN (IF word = <<>> THEN <<>> ELSE <<word>>)
    ELSE IF Head(s) \in Whitespace
         THEN (IF word = <<>> THEN <<>> ELSE <<word>>) \o SplitWords(Tail(s), <<>>)
    ELSE SplitWords(Tail(s), Append(word, Head(s)))

\* str.strip()
RECURSIVE LStrip(_)
LStrip(s) == IF s # <<>> /\ Head(s) \in Whitespace THEN LStrip(Tail(s)) ELSE s

RECURSIVE RStrip(_)
RStrip(s) ==
    IF s # <<>> /\ s[Len(s)] \in Whitespace THEN RStrip(SubSeq(s, 1, Len(s) - 1)) ELSE s

Strip(s) == RStrip(LStrip(s))

\* sep.join(pieces)
RECURSIVE Join(_, _)
Join(pieces, sep) ==
    IF pieces = <<>> THEN <<>>
    ELSE IF Len(pieces) = 1 THEN pieces[1]
    ELSE pieces[1] \o sep \o Join(Tail(pieces), sep)

\* list(dict.fromkeys(seq)): the first occurrence of each element, in order
RECURSIVE FromKeys(_, _)
FromKeys(seq, seen) ==
    IF seq = <<>> THEN <<>>
    ELSE IF Head(seq) \in seen THEN FromKeys(Tail(seq), seen)
    ELSE <<Head(seq)>> \o FromKeys(Tail(seq), seen \cup {Head(seq)})

\* ---- regular expressions: re.sub(pattern, '', s) ----
\* the end of the maximal run of characters from i on that satisfy In (i - 1 when none)
IsDigit(c) == c \in Digits
IsWordChar(c) == c \in Digits \/ c = "_" \/ IndexIn(c, LowerCase) > 0 \/ IndexIn(c, UpperCase) > 0

\* the character classes of the patterns: \d, [^,] and \w
InClass(c, class) ==
    CASE class = "\\d" -> IsDigit(c)
      [] class = "[^,]" -> c # ","
      [] class = "\\w" -> IsWordChar(c)

RECURSIVE RunEnd(_, _, _)
RunEnd(s, i, class) ==
    IF i <= Len(s) /\ InClass(s[i], class) THEN RunEnd(s, i + 1, class) ELSE i - 1

\* '[^, ][^,]* \d+' matched at i: the end of the match, 0 when there is none.
\* [^,]* is greedy, so the space taken is the last one in the clause that digits follow.
StreetMatch(s, i) ==
    IF s[i] \in {",", " "} THEN 0
    ELSE LET clauseEnd == RunEnd(s, i + 1, "[^,]")
             spaces == {j \in (i + 1)..(clauseEnd - 1) : s[j] = " " /\ IsDigit(s[j + 1])}
         IN  IF spaces = {} THEN 0
             ELSE LET j == CHOOSE k \in spaces : \A l \in spaces : l <= k
                  IN  RunEnd(s, j + 1, "\\d")

ZipMinLen == 4
ZipMaxLen == 6

\* '\d{4,6}|\d+\-\d+' matched at i
ZipMatch(s, i) ==
    LET digitsEnd == RunEnd(s, i, "\\d")
        run == digitsEnd - i + 1
    IN  IF run >= ZipMinLen THEN (IF run > ZipMaxLen THEN i + ZipMaxLen - 1 ELSE digitsEnd)
        ELSE IF run >= 1 /\ digitsEnd + 2 <= Len(s) /\ s[digitsEnd + 1] = "-"
                /\ IsDigit(s[digitsEnd + 2])
        THEN RunEnd(s, digitsEnd + 2, "\\d")
        ELSE 0

LongClauseLen == 30

\* '[^,]{30,}' matched at i
LongMatch(s, i) ==
    LET clauseEnd == RunEnd(s, i, "[^,]")
    IN  IF clauseEnd - i + 1 >= LongClauseLen THEN clauseEnd ELSE 0

\* re.sub(pattern, '', s): scan from the left, drop each match, go on after it
\* the three patterns of prettify_location
MatchAt(pattern, s, i) ==
    CASE pattern = "street" -> StreetMatch(s, i)
      [] pattern = "zip" -> ZipMatch(s, i)
      [] pattern = "long" -> LongMatch(s, i)

RECURSIVE ReSub(_, _, _)
ReSub(s, i, pattern) ==
    IF i > Len(s) THEN <<>>
    ELSE LET e == MatchAt(pattern, s, i)
         IN  IF e >= i THEN ReSub(s, e + 1, pattern)
             ELSE <<s[i]>> \o ReSub(s, i + 1, pattern)

\* Series.replace(regex=True) leaves a cell that is not a str alone
ReplaceCell(x, pattern) == IF x.type = "str" THEN PyStr(ReSub(x.s, 1, pattern)) ELSE x

\* `str(x or '-')`: '' and None are falsy, NaN is not
StrOrDash(x) ==
    IF x.type = "NoneType" THEN <<"-">>
    ELSE IF x.type = "float" THEN <<"n", "a", "n">>
    ELSE IF x.s = <<>> THEN <<"-">>
    ELSE x.s

\* SelectSeq with the strip applied first: s.strip() for each piece with s.strip() not empty
RECURSIVE StrippedPieces(_)
StrippedPieces(pieces) ==
    IF pieces = <<>> THEN <<>>
    ELSE (IF Strip(Head(pieces)) # <<>> THEN <<Strip(Head(pieces))>> ELSE <<>>)
         \o StrippedPieces(Tail(pieces))

\* line 108, the lambda
Consolidate(x) ==
    PyStr(Join(FromKeys(StrippedPieces(Split(StrOrDash(x), ",")), {}), <<",", " ">>))

\* prettify_location, lines 100-108, for one cell of the column
prettify_cell(x) ==
    Consolidate(ReplaceCell(ReplaceCell(ReplaceCell(x, "street"), "zip"), "long"))

\* re.match(r'^\w*', s).group(), line 138
LeadingWord(s) == SubSeq(s, 1, RunEnd(s, 1, "\\w"))

\* ---- dates ----
Date(y, m, d) == [y |-> y, m |-> m, d |-> d]

DigitChars == <<"0", "1", "2", "3", "4", "5", "6", "7", "8", "9">>

\* the decimal digits of n, zero-padded to width
RECURSIVE ZeroPad(_, _)
ZeroPad(n, width) ==
    IF width = 0 THEN <<>> ELSE ZeroPad(n \div 10, width - 1) \o <<DigitChars[(n % 10) + 1]>>

\* strftime('%Y-%m-%d')
strftime_ymd(date) == ZeroPad(date.y, 4) \o <<"-">> \o ZeroPad(date.m, 2) \o <<"-">> \o ZeroPad(date.d, 2)

\* the number a run of digits denotes
RECURSIVE ToNumber(_)
ToNumber(s) ==
    IF s = <<>> THEN 0 ELSE 10 * ToNumber(SubSeq(s, 1, Len(s) - 1)) + IndexIn(s[Len(s)], DigitChars) - 1

\* datetime.strptime(text, '%d.%m.%Y')
strptime_dmy(text) ==
    LET parts == Split(text, ".")
    IN  Date(ToNumber(parts[3]), ToNumber(parts[2]), ToNumber(parts[1]))

\* the calendar order of two dates
DateBefore(a, b) ==
    \/ a.y < b.y
    \/ (a.y = b.y /\ a.m < b.m)
    \/ (a.y = b.y /\ a.m = b.m /\ a.d < b.d)

IsLeap(y) == (y % 4 = 0 /\ y % 100 # 0) \/ y % 400 = 0

DaysInMonth(y, m) ==
    IF m = 2 THEN (IF IsLeap(y) THEN 29 ELSE 28)
    ELSE IF m \in {4, 6, 9, 11} THEN 30 ELSE 31

\* the day before a date
PrevDay(date) ==
    IF date.d > 1 THEN Date(date.y, date.m, date.d - 1)
    ELSE IF date.m > 1 THEN Date(date.y, date.m - 1, DaysInMonth(date.y, date.m - 1))
    ELSE Date(date.y - 1, 12, 31)

\* ---- get_variant, lines 29-36 ----
ALL_VARIANTS == {<<"s", "h", "o", "g", "i">>, <<"x", "i", "a", "n", "g", "q", "i">>, <<"j", "a", "n", "g", "g", "i">>, <<"m", "a", "k", "r", "u", "k">>}

SeqRange(seq) == {seq[i] : i \in 1..Len(seq)}

\* a faulty variant of get_variant, `if found: return found.pop()`: one of several found
\* variants is returned
get_variant_any_found(title, variants) ==
    LET words == SeqRange(SplitWords(Lower(title), <<>>))
        found == words \cap SeqRange(variants)
    IN  IF found # {}
        THEN Capitalize(CHOOSE v \in found : \A w \in found : ~StrLess(v, w))
        ELSE Capitalize(variants[1])

\* lines 29-36
get_variant(title, variants) ==
    LET words == SeqRange(SplitWords(Lower(title), <<>>))
        found == words \cap SeqRange(variants)
    IN  IF Cardinality(found) = 1
        THEN Capitalize(CHOOSE v \in found : TRUE)
        ELSE Capitalize(variants[1])

(***************************************************************************)
(* update_tournaments.py: the tables and the run of __main__               *)
(***************************************************************************)
FESA_URL == "https://fesashogi.eu/calendar/"
DXB_URL == "http://chinaschach.de/blog/events/list/?ical=1"
FFS_URL == "https://shogi.fr/events/liste/?ical=1"
SNK_URL == "https://shogi.es/calendario/lista/?ical=1"
TOURNEY_MOMENTUMS_URL == "https://tourney-momentums.eu/tournaments/category/english/list/?ical=1"
EVENT_URL == "https://shogi.example.org/open"

\* urlparse(url).netloc for the URLs of the model
NetLoc(url) ==
    CASE url = FESA_URL -> "fesashogi.eu"
      [] url = DXB_URL -> "chinaschach.de"
      [] url = FFS_URL -> "shogi.fr"
      [] url = SNK_URL -> "shogi.es"
      [] url = TOURNEY_MOMENTUMS_URL -> "tourney-momentums.eu"
      [] url = EVENT_URL -> "shogi.example.org"

\* lines 39-40
render_link(url) == "<a href='" \o url \o "'>" \o NetLoc(url) \o "</a>"

\* lines 124-127: the ICS feeds in the order __main__ fetches them
ICS_FEEDS ==
    << [url |-> TOURNEY_MOMENTUMS_URL, variants |-> <<<<"s", "h", "o", "g", "i">>, <<"x", "i", "a", "n", "g", "q", "i">>, <<"j", "a", "n", "g", "g", "i">>, <<"m", "a", "k", "r", "u", "k">>>>],
       [url |-> DXB_URL, variants |-> <<<<"x", "i", "a", "n", "g", "q", "i">>>>],
       [url |-> FFS_URL, variants |-> <<<<"s", "h", "o", "g", "i">>>>],
       [url |-> SNK_URL, variants |-> <<<<"s", "h", "o", "g", "i">>>>] >>

\* ---- bounds of the aggregator model ----
MaxRows == 3       \* rows of the persisted table and of the fetched tables together
MaxEvents == 1     \* events of one feed or page

\* ---- the dates, places and titles of the model ----
D0930 == Date(2026, 9, 30)
D1001 == Date(2026, 10, 1)
D1002 == Date(2026, 10, 2)
EndDates == {D1001, D1002}
Todays == {D1001, D1002}

Places == {PyStr(<<"U", "l", "m", ",", " ", "D", "E">>), PyStr(<<"B", "o", "n", "n">>)}
Titles == {<<"U", "l", "m", " ", "O", "p", "e", "n">>, <<"X", "i", "a", "n", "g", "q", "i", " ", "C", "u", "p">>}

Row(start, end, variant, location, tournament, source) ==
    [start_date |-> start, end_date |-> end, variant |-> variant, location |-> location,
     tournament |-> tournament, source |-> source]

\* the rows a table of the model may hold
RowPool ==
    {Row(strftime_ymd(D0930), strftime_ymd(e), <<"S", "h", "o", "g", "i">>, p, t, render_link(FFS_URL)) :
        e \in EndDates, p \in Places, t \in Titles}

\* line 141: the sort key, and the order of two rows under it
SortKey(r) == <<r.start_date, r.end_date, r.variant, r.location.s, r.tournament>>

RECURSIVE KeyLess(_, _)
KeyLess(a, b) ==
    IF a = <<>> THEN FALSE
    ELSE IF Head(a) # Head(b) THEN StrLess(Head(a), Head(b))
    ELSE KeyLess(Tail(a), Tail(b))

RowLess(a, b) == KeyLess(SortKey(a), SortKey(b))

\* r put behind the last row of a sorted table that is not greater than it
RECURSIVE InsertRow(_, _)
InsertRow(sorted, r) ==
    IF sorted = <<>> THEN <<r>>
    ELSE IF RowLess(r, sorted[Len(sorted)])
         THEN Append(InsertRow(SubSeq(sorted, 1, Len(sorted) - 1), r), sorted[Len(sorted)])
    ELSE Append(sorted, r)

\* DataFrame.sort_values(by=[...]): a stable sort
RECURSIVE sort_values(_)
sort_values(rows) ==
    IF rows = <<>> THEN <<>>
    ELSE InsertRow(sort_values(SubSeq(rows, 1, Len(rows) - 1)), rows[Len(rows)])

IsSorted(rows) == \A i \in 1..(Len(rows) - 1) : ~RowLess(rows[i + 1], rows[i])

\* the rows at the positions of keep, in order
RECURSIVE RowsAt(_, _, _)
RowsAt(rows, keep, i) ==
    IF i > Len(rows) THEN <<>>
    ELSE (IF i \in keep THEN <<rows[i]>> ELSE <<>>) \o RowsAt(rows, keep, i + 1)

\* pd.concat(calendars), each row labelled with its place in the concatenation
RECURSIVE Flatten(_)
Flatten(tables) == IF tables = <<>> THEN <<>> ELSE Head(tables) \o Flatten(Tail(tables))

concat(tables) ==
    LET rows == Flatten(tables)
    IN  [i \in 1..Len(rows) |->
            [start_date |-> rows[i].start_date, end_date |-> rows[i].end_date,
             variant |-> rows[i].variant, location |-> rows[i].location,
             tournament |-> rows[i].tournament, source |-> rows[i].source, ix |-> i]]

\* line 132
prettify_location(rows) ==
    [i \in 1..Len(rows) |-> [rows[i] EXCEPT !.location = prettify_cell(rows[i].location)]]

\* a faulty variant of DateFilter that compares with > and drops the rows ending today
DateFilterStrict(rows, day) ==
    RowsAt(rows, {i \in 1..Len(rows) : StrLess(strftime_ymd(day), rows[i].end_date)}, 1)

\* line 135: merged[merged['end-date'] >= today.strftime('%Y-%m-%d')]
DateFilter(rows, day) ==
    RowsAt(rows, {i \in 1..Len(rows) : StrGE(rows[i].end_date, strftime_ymd(day))}, 1)

\* lines 136 and 139: the column subsets of the two drop_duplicates calls
ExactKey(r) == <<r.start_date, r.variant, r.tournament>>
FuzzyKey(r) == <<r.start_date, r.end_date, r.variant, LeadingWord(r.location.s)>>

\* a faulty variant of DropExact: drop_duplicates with keep='first'
DropExactKeepFirst(rows) ==
    RowsAt(rows, {i \in 1..Len(rows) :
                    ~\E j \in 1..(i - 1) : ExactKey(rows[j]) = ExactKey(rows[i])}, 1)

\* lines 136 and 139: drop_duplicates(subset=..., keep='last')
DropExact(rows) ==
    RowsAt(rows, {i \in 1..Len(rows) :
                    ~\E j \in (i + 1)..Len(rows) : ExactKey(rows[j]) = ExactKey(rows[i])}, 1)

DropFuzzy(rows) ==
    RowsAt(rows, {i \in 1..Len(rows) :
                    ~\E j \in (i + 1)..Len(rows) : FuzzyKey(rows[j]) = FuzzyKey(rows[i])}, 1)

\* lines 130-141
Merge(tables, unfiltered, day) ==
    LET cleaned == prettify_location(concat(tables))
    IN  IF unfiltered THEN sort_values(cleaned)
        ELSE sort_values(DropFuzzy(DropExact(DateFilter(cleaned, day))))

\* ---- fetching ----
\* what a GET of a source gives: no connection, an HTTP status with a body
NoFetch == [kind |-> "none"]
Unreachable == [kind |-> "connection_error"]
Answer(status, body) == [kind |-> "answer", status |-> status, body |-> body]

EmptyBody == [type |-> "empty"]
MalformedBody == [type |-> "malformed"]
Calendar(events) == [type |-> "calendar", events |-> events]
Page(hasContainer, rows) == [type |-> "page", hasContainer |-> hasContainer, rows |-> rows]

\* a VEVENT: dtstart, dtend, summary, location (None when absent), url (Absent when absent)
Events ==
    { [dtstart |-> D1001, dtend |-> D1002, summary |-> <<"X", "i", "a", "n", "g", "q", "i", " ", "C", "u", "p">>,
       location |-> PyStr(<<"U", "l", "m", ",", " ", "D", "E">>), url |-> Absent],
      [dtstart |-> D0930, dtend |-> D1001, summary |-> <<"U", "l", "m", " ", "O", "p", "e", "n">>,
       location |-> PyNone, url |-> EVENT_URL] }

\* a row of the FESA page: the texts of its four cells
PageRows ==
    { [start_date |-> <<"0", "1", ".", "1", "0", ".", "2", "0", "2", "6">>, end_date |-> <<"0", "2", ".", "1", "0", ".", "2", "0", "2", "6">>, event_name |-> <<"U", "l", "m", " ", "O", "p", "e", "n">>,
       location |-> <<"U", "l", "m">>] }

IcsOutcomes ==
    {Unreachable, Answer(500, EmptyBody), Answer(200, EmptyBody), Answer(200, MalformedBody)}
        \cup {Answer(200, Calendar(es)) : es \in SeqsUpTo(Events, MaxEvents)}

HtmlOutcomes ==
    {Unreachable, Answer(404, EmptyBody), Answer(200, Page(FALSE, <<>>))}
        \cup {Answer(200, Page(TRUE, rs)) : rs \in SeqsUpTo(PageRows, MaxEvents)}

\* lines 23-26: requests.get raises without a connection, raise_for_status on a status
\* of 400 or more
GetContentRaises(o) == o.kind = "connection_error" \/ o.status >= 400

\* line 47: icalendar.Calendar.from_ical raises ValueError on a body that is no calendar
FromIcalRaises(body) == body.type = "malformed"

\* lines 50-58: the row of one VEVENT
EventRow(e, url, variants) ==
    Row(strftime_ymd(e.dtstart), strftime_ymd(e.dtend), get_variant(e.summary, variants),
        e.location, e.summary, render_link(IF e.url # Absent THEN e.url ELSE url))

\* get_ics_calendar, lines 43-61: whether it raises, and the table it returns
IcsRaises(o) ==
    GetContentRaises(o) \/ (o.body.type # "empty" /\ FromIcalRaises(o.body))

IcsTable(o, url, variants) ==
    IF o.body.type = "empty" THEN <<>>
    ELSE [i \in 1..Len(o.body.events) |-> EventRow(o.body.events[i], url, variants)]

\* get_html_calendar, lines 64-97
HtmlRaises(o) == GetContentRaises(o) \/ ~o.body.hasContainer

PageRow(r, url) ==
    Row(strftime_ymd(strptime_dmy(r.start_date)), strftime_ymd(strptime_dmy(r.end_date)),
        <<"S", "h", "o", "g", "i">>, PyStr(r.location), r.event_name, render_link(url))

HtmlTable(o, url) == [i \in 1..Len(o.body.rows) |-> PageRow(o.body.rows[i], url)]

Flags == [dry_run : BOOLEAN, offline : BOOLEAN, unfiltered : BOOLEAN]

TableSize(tables) == Len(Flatten(tables))

\* the persisted tables of the model: the script writes its table sorted
FetchedTables == SeqsUpTo(RowPool, MaxRows)
PersistedTables == {t \in FetchedTables : IsSorted(t)}

\* __main__ after lines 112-121: flags parsed, tournaments.tsv read
InitAgg ==
    /\ args \in Flags
    /\ today \in Todays
    /\ \E current \in {t \in PersistedTables : Len(t) <= 1} : calendars = <<current>>
    /\ apc = IF args.offline THEN "merge" ELSE "fetch"
    /\ feedIdx = 1
    /\ lastFetch = NoFetch
    /\ filtered = <<>>
    /\ merged = <<>>

\* lines 124-127: one get_ics_calendar call
FetchIcs ==
    /\ apc = "fetch"
    /\ feedIdx <= Len(ICS_FEEDS)
    /\ \E o \in IcsOutcomes :
        /\ lastFetch' = o
        /\ IF IcsRaises(o)
           THEN \* the exception leaves __main__: nothing is merged or written
                /\ apc' = "aborted"
                /\ UNCHANGED <<calendars, feedIdx>>
           ELSE /\ calendars' = Append(calendars,
                                       IcsTable(o, ICS_FEEDS[feedIdx].url, ICS_FEEDS[feedIdx].variants))
                /\ feedIdx' = feedIdx + 1
                /\ UNCHANGED apc
    /\ UNCHANGED <<args, today, filtered, merged>>
    /\ UNCHANGED <<linkVars, gvVars, locVars>>

\* line 128: the get_html_calendar call
FetchHtml ==
    /\ apc = "fetch"
    /\ feedIdx = Len(ICS_FEEDS) + 1
    /\ \E o \in HtmlOutcomes :
        /\ lastFetch' = o
        /\ IF HtmlRaises(o)
           THEN /\ apc' = "aborted"
                /\ UNCHANGED <<calendars, feedIdx>>
           ELSE /\ calendars' = Append(calendars, HtmlTable(o, FESA_URL))
                /\ feedIdx' = feedIdx + 1
                /\ apc' = "merge"
    /\ UNCHANGED <<args, today, filtered, merged>>
    /\ UNCHANGED <<linkVars, gvVars, locVars>>

\* lines 130-142: merge, clean, filter, sort, write
MergeAndWrite ==
    /\ apc = "merge"
    /\ filtered' = IF args.unfiltered THEN <<>>
                   ELSE DateFilter(prettify_location(concat(calendars)), today)
    /\ merged' = Merge(calendars, args.unfiltered, today)
    /\ apc' = IF args.dry_run THEN "printed" ELSE "written"
    /\ UNCHANGED <<args, today, calendars, feedIdx, lastFetch>>
    /\ UNCHANGED <<linkVars, gvVars, locVars>>

\* __main__ at line 130: the persisted table, the rows the shogi.fr feed gave, and
\* nothing from the other sources
InitMerge ==
    /\ args \in {f \in Flags : ~f.offline /\ ~f.dry_run /\ ~f.unfiltered}
    /\ today \in Todays
    /\ \E current \in PersistedTables : \E fetched \in FetchedTables :
        /\ Len(current) + Len(fetched) <= MaxRows
        /\ calendars = <<current, <<>>, <<>>, fetched, <<>>, <<>>>>
    /\ apc = "merge"
    /\ feedIdx = Len(ICS_FEEDS) + 2
    /\ lastFetch = Answer(200, Page(TRUE, <<>>))
    /\ filtered = <<>>
    /\ merged = <<>>

(***************************************************************************)
(* get_variant and prettify_location on their own                          *)
(***************************************************************************)
MaxWords == 4      \* words of a title
MaxLocLen == 3     \* characters of a generated location

NotYet == [type |-> "unset", s |-> <<>>]

\* the words titles are made of, each with the lower-case word it stands for
Vocabulary ==
    { [text |-> <<"X", "i", "a", "n", "g", "q", "i">>, word |-> <<"x", "i", "a", "n", "g", "q", "i">>],
      [text |-> <<"J", "a", "n", "g", "g", "i">>, word |-> <<"j", "a", "n", "g", "g", "i">>],
      [text |-> <<"S", "H", "O", "G", "I">>, word |-> <<"s", "h", "o", "g", "i">>],
      [text |-> <<"O", "p", "e", "n">>, word |-> <<"o", "p", "e", "n">>],
      [text |-> <<"C", "u", "p">>, word |-> <<"c", "u", "p">>] }

\* the variant tuples __main__ passes (lines 124-127), and the pair of the ambiguous title
VariantLists ==
    { <<<<"s", "h", "o", "g", "i">>, <<"x", "i", "a", "n", "g", "q", "i">>, <<"j", "a", "n", "g", "g", "i">>, <<"m", "a", "k", "r", "u", "k">>>>, <<<<"x", "i", "a", "n", "g", "q", "i">>>>, <<<<"s", "h", "o", "g", "i">>>>,
      <<<<"x", "i", "a", "n", "g", "q", "i">>, <<"j", "a", "n", "g", "g", "i">>>> }

InitVariant ==
    /\ gvWords \in SeqsUpTo(Vocabulary, MaxWords)
    /\ gvTitle = Join([i \in 1..Len(gvWords) |-> gvWords[i].text], <<" ">>)
    /\ gvVariants \in VariantLists
    /\ gvResult = NotYet

\* a call get_variant(title, variants)
GetVariant ==
    /\ gvResult = NotYet
    /\ gvResult' = PyStr(get_variant(gvTitle, gvVariants))
    /\ UNCHANGED <<gvWords, gvTitle, gvVariants>>
    /\ UNCHANGED <<linkVars, aggVars, locVars>>

LocAlphabet == {"a", "1", " ", ",", "-"}

\* cells of the location column: short strings over LocAlphabet, some addresses,
\* a clause of LongClauseLen characters, None and NaN
LocationInputs ==
    {PyStr(s) : s \in SeqsUpTo(LocAlphabet, MaxLocLen)}
        \cup { PyStr(<<"H", "a", "u", "p", "t", "s", "t", "r", " ", "1", "2", ",", " ", "8", "9", "0", "7", "3", " ", "U", "l", "m">>), PyStr(<<"U", "l", "m", ",", " ", "U", "l", "m", " ", ",", " ", "D", "E">>),
               PyStr(<<"R", "u", "e", " ", "5", ",", " ", "7", "5", "0", "1", "1">>), PyStr(<<"O", "s", "a", "k", "a", " ", "5", "3", "0", "-", "0", "0", "0", "1">>),
               PyStr(Repeat("a", LongClauseLen) \o <<",", " ", "U", "l", "m">>),
               PyStr(Repeat("a", LongClauseLen - 1) \o <<",", " ", "U", "l", "m">>),
               PyNone, PyNaN }

InitLoc ==
    /\ locIn \in LocationInputs
    /\ locOnce = NotYet
    /\ locTwice = NotYet

\* prettify_location on a column holding the cell
PrettifyOnce ==
    /\ locOnce = NotYet
    /\ locOnce' = prettify_cell(locIn)
    /\ UNCHANGED <<locIn, locTwice>>
    /\ UNCHANGED <<linkVars, aggVars, gvVars>>

\* prettify_location on its own output
PrettifyAgain ==
    /\ locOnce # NotYet
    /\ locTwice = NotYet
    /\ locTwice' = prettify_cell(locOnce)
    /\ UNCHANGED <<locIn, locOnce>>
    /\ UNCHANGED <<linkVars, aggVars, gvVars>>

(***************************************************************************)
(* The specifications: one per script or function, the rest at rest.       *)
(***************************************************************************)
IdleAgg ==
    /\ apc = "idle"
    /\ args = [dry_run |-> FALSE, offline |-> FALSE, unfiltered |-> FALSE]
    /\ today = D1001
    /\ calendars = <<>>
    /\ feedIdx = 1
    /\ lastFetch = NoFetch
    /\ filtered = <<>>
    /\ merged = <<>>

IdleVariant ==
    /\ gvWords = <<>>
    /\ gvTitle = <<>>
    /\ gvVariants = <<<<"s", "h", "o", "g", "i">>>>
    /\ gvResult = NotYet

IdleLoc ==
    /\ locIn = PyNone
    /\ locOnce = PyStr(<<"-">>)
    /\ locTwice = PyStr(<<"-">>)

\* verify_links.py on runs that check one link, every response and exception of the
\* model at each request
InitUrl == InitLinks /\ IdleAgg /\ IdleVariant /\ IdleLoc
NextUrl == MainLoop(UrlFileStates, 1) \/ Attempt(AllOutcomes) \/ MainExit
SpecUrl == InitUrl /\ [][NextUrl]_vars

\* verify_links.py, whole runs over every kind of data file
InitRun == InitLinks /\ IdleAgg /\ IdleVariant /\ IdleLoc
NextLinks == MainLoop(FileStates, MaxLinks) \/ Attempt(MainOutcomes) \/ MainExit
SpecLinks == InitRun /\ [][NextLinks]_vars

\* update_tournaments.py, whole runs
InitAggRun == InitAgg /\ InitLinks /\ IdleVariant /\ IdleLoc
NextAgg == FetchIcs \/ FetchHtml \/ MergeAndWrite
SpecAgg == InitAggRun /\ [][NextAgg]_vars

\* update_tournaments.py from the merge on
InitMergeRun == InitMerge /\ InitLinks /\ IdleVariant /\ IdleLoc
SpecMerge == InitMergeRun /\ [][MergeAndWrite]_vars

\* calls of get_variant
InitVariantCall == InitVariant /\ InitLinks /\ IdleAgg /\ IdleLoc
SpecVariant == InitVariantCall /\ [][GetVariant]_vars

\* prettify_location applied twice
InitLocCall == InitLoc /\ InitLinks /\ IdleAgg /\ IdleVariant
NextLoc == PrettifyOnce \/ PrettifyAgain
SpecLoc == InitLocCall /\ [][NextLoc]_vars

(***************************************************************************)
(* The claims                                                              *)
(***************************************************************************)
AllFiles == 1..Len(FILES_TO_CHECK)

\* C1: a run exits with status 1 if and only if check_url returned failure for at least
\* one extracted link, and with status 0 otherwise.
C1_ExitStatusIffFailedLink ==
    exitCode # NoExit =>
        /\ exitCode \in {0, 1}
        /\ exitCode = 1 <=> \E i \in 1..Len(returns) : ~returns[i].success

\* an attempt that ended in an exception or in a response of status >= 400 that the
\* anti-bot detection does not recognise
AttemptFailed(o) ==
    o.kind = "exception" \/ (o.status >= 400 /\ ~is_antibot_response(o))

\* C2: check_url makes at most 3 attempts and returns failure exactly when each of 3
\* attempts ended in an exception or a non-anti-bot status >= 400; the message is the
\* last attempt's error followed by '(failed after 3 attempts)'.
C2_FailureIffThreeFailedAttempts ==
    /\ Len(hist) <= 3
    /\ ret # NoRet =>
        /\ ret.success \in BOOLEAN
        /\ ~ret.success <=> (Len(hist) = 3 /\ \A i \in 1..3 : AttemptFailed(hist[i]))
        /\ ~ret.success => ret.message = ErrorText(hist[3]) \o " (failed after 3 attempts)"
        /\ hist = <<R500, R500, R500>> =>
                ret = [success |-> FALSE, message |-> "HTTP 500 (failed after 3 attempts)"]

\* C2's case: a timeout, then two answers of 500, and check_url has returned
C2_Witness ==
    /\ ret # NoRet
    /\ Len(hist) = 3
    /\ hist[1].kind = "exception"
    /\ hist[3] = R500
    /\ ret.message = "HTTP 500 (failed after 3 attempts)"

LowStatus(o) == o.kind = "response" /\ o.status < 400

\* C3 as stated: an attempt whose response has status < 400 ends check_url with success
\* at once, with no further attempt or delay, and never with the anti-bot annotation.
C3_LowStatusNeverAnnotated ==
    \A i \in 1..Len(hist) :
        LowStatus(hist[i]) =>
            /\ i = Len(hist)
            /\ ret = [success |-> TRUE, message |-> ""]
            /\ sleeps = i - 1

\* C3 amended: an attempt whose response has status < 400 ends check_url with success at
\* once, with no further attempt or delay; the anti-bot inspection runs before the status
\* test, so the message is the anti-bot annotation when the response carries a
\* cf-mitigated header with 'challenge' in it, and empty otherwise.
C3_LowStatusSucceedsAtOnce ==
    \A i \in 1..Len(hist) :
        LowStatus(hist[i]) =>
            /\ i = Len(hist)
            /\ ret # NoRet
            /\ ret.success
            /\ ret.message = IF CfMitigatedChallenge(hist[i]) THEN AntiBotMessage ELSE ""
            /\ sleeps = i - 1

\* C3's case: a 200 carrying the challenge header on the second attempt
C3_Witness ==
    /\ Len(hist) = 2
    /\ hist[2] = R200Challenge
    /\ ret = [success |-> TRUE, message |-> AntiBotMessage]
    /\ sleeps = 1

\* a 403 with one of the three challenge signatures of C4
ChallengeSignature403(o) ==
    /\ o.kind = "response"
    /\ o.status = 403
    /\ \/ CfMitigatedChallenge(o)
       \/ Cloudflare403(o)
       \/ IndicatorHeader(o)

\* C4: a 403 with a recognised challenge signature on attempt k ends check_url on that
\* attempt with success and a non-empty annotation, with no further attempt or delay, and
\* the link is not put on the failure list.
C4_ChallengeIsSuccess ==
    \A k \in 1..Len(hist) :
        ChallengeSignature403(hist[k]) =>
            /\ k = Len(hist)
            /\ ret # NoRet
            /\ ret.success
            /\ ret.message # ""
            /\ sleeps = k - 1
            /\ failed_links = <<>>
            /\ all_failed_links = <<>>

\* C4's case: two failed attempts, then a 403 from a Cloudflare server with a cf-ray
C4_Witness ==
    /\ Len(hist) = 3
    /\ hist[3] = R403Cloudflare
    /\ ret # NoRet
    /\ ret.success
    /\ pc = "exited"

\* C5: no failure while handling a link or a data file aborts the run or keeps the
\* remaining files from being checked: a run ends by leaving main's loop with every file
\* of FILES_TO_CHECK visited and every check_url call returned.
C5_FailureIsolation ==
    exitCode # NoExit =>
        /\ pc = "exited"
        /\ visited = AllFiles
        /\ Len(returns) = Len(checked)

\* C6: an ICS feed that cannot be fetched, or is empty, or malformed, is not fatal: the
\* run does not end inside get_ics_calendar.
C6_IcsFeedNonFatal ==
    apc = "aborted" => feedIdx > Len(ICS_FEEDS)

\* ---- the merge pipeline ----
Input == concat(calendars)
OutputIx == {merged[i].ix : i \in 1..Len(merged)}
FilteredIx == {filtered[i].ix : i \in 1..Len(filtered)}
MergeDone == apc \in {"written", "printed"} /\ ~args.unfiltered

\* the rows of the table that share row i's (start-date, variant, tournament)
SameKey(rows, i) ==
    {j \in 1..Len(rows) : /\ rows[j].start_date = rows[i].start_date
                          /\ rows[j].variant = rows[i].variant
                          /\ rows[j].tournament = rows[i].tournament}

Last(S) == CHOOSE i \in S : \A j \in S : j <= i

\* the rows of the table whose end-date is not before today, by the calendar
NotPast(rows) ==
    {i \in 1..Len(rows) :
        \E d \in EndDates : rows[i].end_date = strftime_ymd(d) /\ ~DateBefore(d, today)}

\* the rows the first dedupe leaves: of each key, the last row that is not past
LastOfKey(rows, notPast) ==
    {i \in notPast : i = Last(SameKey(rows, i) \cap notPast)}

\* row j is in the same place at the same dates as row i: start-date, end-date, variant
\* and the leading word of the cleaned location agree
SamePlaceAndDates(cleaned, i, j) ==
    /\ cleaned[j].start_date = cleaned[i].start_date
    /\ cleaned[j].end_date = cleaned[i].end_date
    /\ cleaned[j].variant = cleaned[i].variant
    /\ LeadingWord(cleaned[j].location.s) = LeadingWord(cleaned[i].location.s)

\* C7 as stated: of the input rows that share a key, the output holds the last-supplied
\* one and none of the earlier ones.
C7_LastSuppliedWins ==
    MergeDone =>
        LET input == Input
            out == OutputIx
        IN  \A i \in 1..Len(input) :
                Cardinality(SameKey(input, i)) >= 2 =>
                    (i \in out <=> i = Last(SameKey(input, i)))

\* C7 amended: of the input rows that share a key, the output holds none but the
\* last-supplied of those whose end-date is not before today (the date filter runs before
\* the dedupe), and it holds that one unless a later row that is the last of its own key
\* has the same start-date, end-date, variant and leading word of the cleaned location.
C7_LastCurrentWins ==
    MergeDone =>
        LET input == Input
            cleaned == prettify_location(input)
            out == OutputIx
            lastOfKey == LastOfKey(input, NotPast(input))
        IN  \A i \in 1..Len(input) :
                Cardinality(SameKey(input, i)) >= 2 =>
                    (i \in out <=>
                        /\ i \in lastOfKey
                        /\ ~\E j \in lastOfKey : j > i /\ SamePlaceAndDates(cleaned, i, j))

\* C7's case: a persisted row and a fetched row of the same key that differ in location,
\* neither past, and the fetched one is the one written
C7_Witness ==
    /\ MergeDone
    /\ LET input == Input
           out == OutputIx
           notPast == NotPast(input)
       IN  \E i, j \in 1..Len(input) :
            /\ i <= Len(calendars[1])
            /\ j > Len(calendars[1])
            /\ j \in SameKey(input, i)
            /\ input[i].location # input[j].location
            /\ i \in notPast
            /\ j \in out
            /\ i \notin out

\* C8: the date filter removes a row exactly when its end-date is before today: every
\* row written has an end-date of today or later, a row ending today passes the date
\* filter, and a row ending yesterday is never written.
C8_DateFilter ==
    MergeDone =>
        LET input == Input
            out == OutputIx
            kept == FilteredIx
            notPast == NotPast(input)
        IN  /\ kept = notPast
            /\ out \subseteq notPast
            /\ \A i \in 1..Len(input) :
                /\ input[i].end_date = strftime_ymd(today) => i \in kept
                /\ input[i].end_date = strftime_ymd(PrevDay(today)) => i \notin out

\* C8's case: a row ending today that is written and a row ending yesterday that is not
C8_Witness ==
    /\ MergeDone
    /\ LET input == Input
           out == OutputIx
       IN  \E i, j \in 1..Len(input) :
            /\ input[i].end_date = strftime_ymd(today)
            /\ i \in out
            /\ input[j].end_date = strftime_ymd(PrevDay(today))
            /\ j \notin out

\* the capitalized form of each variant
CapitalForm(v) ==
    CASE v = <<"s", "h", "o", "g", "i">> -> <<"S", "h", "o", "g", "i">>
      [] v = <<"x", "i", "a", "n", "g", "q", "i">> -> <<"X", "i", "a", "n", "g", "q", "i">>
      [] v = <<"j", "a", "n", "g", "g", "i">> -> <<"J", "a", "n", "g", "g", "i">>
      [] v = <<"m", "a", "k", "r", "u", "k">> -> <<"M", "a", "k", "r", "u", "k">>

\* the permitted variants that occur among the title's words
Occurring ==
    {v \in SeqRange(gvVariants) : \E i \in 1..Len(gvWords) : gvWords[i].word = v}

\* C9: get_variant returns the capitalized form of a permitted variant: the one that
\* occurs among the title's words when exactly one does, the first of the permitted
\* sequence in every other case.
C9_VariantOrFirst ==
    gvResult # NotYet =>
        /\ gvResult.s \in {CapitalForm(v) : v \in SeqRange(gvVariants)}
        /\ Cardinality(Occurring) = 1 => \A v \in Occurring : gvResult.s = CapitalForm(v)
        /\ Cardinality(Occurring) # 1 => gvResult.s = CapitalForm(gvVariants[1])

\* C9's case: 'Xiangqi Open Janggi Cup' against (xiangqi, janggi)
C9_Witness ==
    /\ gvTitle = <<"X", "i", "a", "n", "g", "q", "i", " ", "O", "p", "e", "n", " ", "J", "a", "n", "g", "g", "i", " ", "C", "u", "p">>
    /\ gvVariants = <<<<"x", "i", "a", "n", "g", "q", "i">>, <<"j", "a", "n", "g", "g", "i">>>>
    /\ gvResult = PyStr(<<"X", "i", "a", "n", "g", "q", "i">>)

\* C10: prettify_location is idempotent: applied to its own output it gives that output.
C10_Idempotent ==
    locTwice # NotYet => locTwice = locOnce

=============================================================================
